---- MODULE Spec2Model ----
(***************************************************************************)
(* Model of src/app.py: the material reservation manager.                  *)
(*                                                                         *)
(* The relational store (tables materials, packs, pack_components, sports, *)
(* reserves, reserve_lines) is the shared state; the catalogue tables are  *)
(* read-only and given as definitions, the two reservation tables are      *)
(* variables.  A Streamlit session is a process: each script run that      *)
(* handles a widget event is an action (or, for the submission, a short    *)
(* sequence of actions cut at the store calls).                            *)
(***************************************************************************)
EXTENDS Integers, Sequences, FiniteSets, TLC

(***************************************************************************)
(* Bounds of the model.                                                    *)
(***************************************************************************)
MaxDay == 1        \* calendar days are 0..MaxDay
MaxQty == 1        \* largest quantity a user types into a number_input
MaxRes == 2        \* largest number of rows of table reserves

(***************************************************************************)
(* Program constants.                                                      *)
(***************************************************************************)
StartOfDay == 0        \* time(0, 0, 0) as a second of the day
EndOfDay == 86399      \* time(23, 59, 59) as a second of the day
WidgetMax == 9999      \* max_value of a number_input on an unlimited item

NULL == "NULL"         \* SQL NULL in a column of identifiers

\* An optional integer (a nullable integer column, a Python int-or-None):
\* None, or Some(n).
None == << >>
Some(n) == <<n>>
Val(o) == o[1]

Days == 0..MaxDay

(***************************************************************************)
(* datetime values: <<day, second of day>>, ordered as datetime orders     *)
(* them (date first, then time).                                           *)
(***************************************************************************)
Lt(a, b) == a[1] < b[1] \/ (a[1] = b[1] /\ a[2] < b[2])
Le(a, b) == a = b \/ Lt(a, b)

\* Variant: the end date is combined with time(0,0,0) too, so the last day of a
\* range is not covered.
normalize_range_midnight(start_date, end_date) ==
    << <<start_date, StartOfDay>>, <<end_date, StartOfDay>> >>

\* datetime.combine(start_date, time(0,0,0)), datetime.combine(end_date, time(23,59,59))
normalize_range(start_date, end_date) ==
    << <<start_date, StartOfDay>>, <<end_date, EndOfDay>> >>

(***************************************************************************)
(* The catalogue (tables materials, packs, pack_components, sports,        *)
(* sport_material): a sample inventory.  m1 is both a material of the      *)
(* flexible sport and a component of the pack, m2 is unlimited.            *)
(***************************************************************************)
MaterialIds == {"m1", "m2"}
PackIds == {"p1"}
SportIds == {"s1", "s2"}

\* materials.stock
stock == [m \in MaterialIds |-> IF m = "m1" THEN Some(2) ELSE None]

\* Further rows of table packs that no sport of SportIds offers: p2 has no
\* component, p3 only the unlimited material.
UnofferedPackIds == {"p2", "p3"}

\* pack_components rows
pack_components ==
    { [pack_id |-> "p1", material_id |-> "m1", qty_required |-> 2],
      [pack_id |-> "p1", material_id |-> "m2", qty_required |-> 1],
      [pack_id |-> "p3", material_id |-> "m2", qty_required |-> 1] }

\* sports.mode
sport_mode == [s \in SportIds |-> IF s = "s1" THEN "flexible" ELSE "pack_fixe"]

\* get_materials_by_sport: the materials of a sport, ORDER BY nom
get_materials_by_sport(sport_id) ==
    IF sport_id = "s1" THEN <<"m1", "m2">> ELSE << >>

\* get_pack_for_sport: the pack of a sport (0..1)
get_pack_for_sport(sport_id) == IF sport_id = "s2" THEN "p1" ELSE NULL

\* get_pack_components: rows of pack_components of a pack
get_pack_components(pack_id) == {c \in pack_components : c.pack_id = pack_id}

(***************************************************************************)
(* Arithmetic helpers.                                                     *)
(***************************************************************************)
Max(a, b) == IF a >= b THEN a ELSE b
Min(a, b) == IF a <= b THEN a ELSE b

RECURSIVE SumOver(_, _)
SumOver(f, S) ==
    IF S = {} THEN 0
    ELSE LET x == CHOOSE y \in S : TRUE IN f[x] + SumOver(f, S \ {x})

RECURSIVE MinOf(_)
MinOf(S) ==
    LET x == CHOOSE y \in S : TRUE
    IN IF S = {x} THEN x ELSE Min(x, MinOf(S \ {x}))

(***************************************************************************)
(* Availability engine.  res is the content of table reserves (a sequence  *)
(* indexed by id), lin the content of table reserve_lines.                 *)
(***************************************************************************)

\* Variant: r.estat <> 'cancel·lada' (a finished reservation still counts).
IsConfirmed_not_cancelled(r) == r.estat # "cancel·lada"

\* r.estat = 'confirmada'
IsConfirmed(r) == r.estat = "confirmada"

\* Variant: :end_ts >= r.data_recollida AND :start_ts <= r.data_retorn
Overlaps_closed(start_ts, end_ts, r) ==
    Le(r.data_recollida, end_ts) /\ Le(start_ts, r.data_retorn)

\* :end_ts > r.data_recollida AND :start_ts < r.data_retorn
Overlaps(start_ts, end_ts, r) ==
    Lt(r.data_recollida, end_ts) /\ Lt(start_ts, r.data_retorn)

\* The rows of reserve_lines that survive JOIN reserves r ON r.id = rl.reserva_id
\* with the WHERE filter on state and overlap.
CountedLines(res, lin, start_ts, end_ts) ==
    { i \in DOMAIN lin :
        /\ lin[i].reserva_id \in DOMAIN res
        /\ IsConfirmed(res[lin[i].reserva_id])
        /\ Overlaps(start_ts, end_ts, res[lin[i].reserva_id]) }

\* Variant: COALESCE(MAX(rl.qty), 0), the largest line instead of the sum.
direct_reserved_max(res, lin, mid, start_ts, end_ts) ==
    LET rows == { i \in CountedLines(res, lin, start_ts, end_ts) :
                    lin[i].material_id = mid }
    IN IF rows = {} THEN 0
       ELSE CHOOSE q \in { lin[i].qty : i \in rows } :
              \A i \in rows : lin[i].qty <= q

\* CTE direct_reserved: COALESCE(SUM(rl.qty), 0)
direct_reserved(res, lin, mid, start_ts, end_ts) ==
    LET rows == { i \in CountedLines(res, lin, start_ts, end_ts) :
                    lin[i].material_id = mid }
    IN SumOver([i \in rows |-> lin[i].qty], rows)

\* Variant: SUM(rl.qty), a reserved pack taking one unit of each component.
packs_reserved_unit(res, lin, mid, start_ts, end_ts) ==
    LET rows == { <<i, c>> \in CountedLines(res, lin, start_ts, end_ts)
                                 \X pack_components :
                    /\ lin[i].pack_id # NULL
                    /\ c.pack_id = lin[i].pack_id
                    /\ c.material_id = mid }
    IN SumOver([p \in rows |-> lin[p[1]].qty], rows)

\* CTE packs_reserved: COALESCE(SUM(rl.qty * pc.qty_required), 0)
packs_reserved(res, lin, mid, start_ts, end_ts) ==
    LET rows == { <<i, c>> \in CountedLines(res, lin, start_ts, end_ts)
                                 \X pack_components :
                    /\ lin[i].pack_id # NULL
                    /\ c.pack_id = lin[i].pack_id
                    /\ c.material_id = mid }
    IN SumOver([p \in rows |-> lin[p[1]].qty * p[2].qty_required], rows)

\* Variant: stock - reserved without GREATEST(..., 0).
get_material_available_unclamped(res, lin, mid, start_ts, end_ts) ==
    IF stock[mid] = None THEN None
    ELSE Some(Val(stock[mid])
                - ( direct_reserved(res, lin, mid, start_ts, end_ts)
                  + packs_reserved(res, lin, mid, start_ts, end_ts) ))

\* Variant: COALESCE(base.stock, 0), a NULL stock counting as no stock.
get_material_available_null_zero(res, lin, mid, start_ts, end_ts) ==
    LET base == IF stock[mid] = None THEN 0 ELSE Val(stock[mid])
    IN Some(Max(base - ( direct_reserved(res, lin, mid, start_ts, end_ts)
                       + packs_reserved(res, lin, mid, start_ts, end_ts) ), 0))

\* get_material_available: None (unlimited) or GREATEST(stock - reserved, 0)
get_material_available(res, lin, mid, start_ts, end_ts) ==
    IF stock[mid] = None THEN None
    ELSE Some(Max(Val(stock[mid])
                    - ( direct_reserved(res, lin, mid, start_ts, end_ts)
                      + packs_reserved(res, lin, mid, start_ts, end_ts) ), 0))

\* Variant: an unlimited component makes the pack unlimited.
get_pack_available_any_infinite(res, lin, pack_id, start_ts, end_ts) ==
    LET comps == get_pack_components(pack_id)
        avail(c) == get_material_available(res, lin, c.material_id, start_ts, end_ts)
        has_infinite == \E c \in comps : avail(c) = None
        per_component == { Val(avail(c)) \div c.qty_required :
                             c \in {d \in comps : avail(d) # None} }
    IN IF comps = {} THEN Some(0)
       ELSE IF has_infinite THEN None
            ELSE (IF per_component # {} THEN Some(MinOf(per_component)) ELSE Some(0))

\* get_pack_available: minimum over the bounded components
get_pack_available(res, lin, pack_id, start_ts, end_ts) ==
    LET comps == get_pack_components(pack_id)
        avail(c) == get_material_available(res, lin, c.material_id, start_ts, end_ts)
        has_infinite == \E c \in comps : avail(c) = None
        per_component == { Val(avail(c)) \div c.qty_required :
                             c \in {d \in comps : avail(d) # None} }
    IN IF comps = {} THEN Some(0)
       ELSE IF has_infinite
            THEN (IF per_component # {} THEN Some(MinOf(per_component)) ELSE None)
            ELSE (IF per_component # {} THEN Some(MinOf(per_component)) ELSE Some(0))

\* get_availability_map: what the form shows for a sport and a date range
\* (the pack_info None of a flexible sport is the record with no pack_id)
get_availability_map(res, lin, sport_id, start_ts, end_ts) ==
    IF sport_mode[sport_id] = "flexible"
    THEN [ avail |-> [ m \in { get_materials_by_sport(sport_id)[i] :
                                 i \in DOMAIN get_materials_by_sport(sport_id) }
                         |-> get_material_available(res, lin, m, start_ts, end_ts) ],
           pack_info |-> [pack_id |-> NULL, pack_available |-> None] ]
    ELSE LET pack == get_pack_for_sport(sport_id)
         IN IF pack = NULL
            THEN [ avail |-> << >>,
                   pack_info |-> [pack_id |-> NULL, pack_available |-> Some(0)] ]
            ELSE [ avail |-> << >>,
                   pack_info |-> [ pack_id |-> pack,
                                   pack_available |->
                                     get_pack_available(res, lin, pack, start_ts, end_ts) ] ]

(***************************************************************************)
(* The submitted form.                                                     *)
(***************************************************************************)

\* The names the script binds to the text inputs of the form (lines 443-457).
ScriptNames ==
    { "adreca_electronica", "nom_centre", "nif_cif", "telefon_centre",
      "adreca_centre", "poblacio_centre", "cp_centre",
      "responsable_nom", "responsable_dni", "responsable_telefon",
      "responsable_email", "responsable_poblacio", "responsable_cp" }

\* The fields the form marks with an asterisk.
RequiredNames ==
    ScriptNames \ {"responsable_poblacio", "responsable_cp"}

\* The operands of the condition of line 463, in the order Python evaluates them.
CheckedNames ==
    << "adreca_electronica", "nom_centre", "nif_cif", "telefon_centre",
       "adreça_centre", "poblacio_centre", "cp_centre",
       "responsable_nom", "responsable_dni", "responsable_telefon",
       "responsable_email" >>

\* A filled form, and the forms with one required field left blank.
FilledHeader == [n \in ScriptNames |-> "x"]
Headers ==
    {FilledHeader} \cup
    { [FilledHeader EXCEPT ![n] = ""] : n \in RequiredNames }

\* Variant: the test of the required fields is left out.
Line463_skipped(hdr) == "false"

\* `not a or not b or ...` of line 463, evaluated left to right with short
\* circuit: "true" (a field is empty), "false" (none is), or "NameError" when the
\* evaluation reaches a name the script never bound.
Line463(hdr) ==
    LET stops == { i \in DOMAIN CheckedNames :
                     \/ CheckedNames[i] \notin ScriptNames
                     \/ hdr[CheckedNames[i]] = "" }
    IN IF stops = {} THEN "false"
       ELSE LET i == CHOOSE j \in stops : \A k \in stops : j <= k
            IN IF CheckedNames[i] \notin ScriptNames THEN "NameError" ELSE "true"

\* max_value of the number_input of a material (lines 410-415)
MaterialMaxVal(m, avail) ==
    IF stock[m] = None THEN WidgetMax
    ELSE IF avail # None /\ Val(avail) >= 0 THEN Val(avail) ELSE 0

\* max_value of the number_input of the pack (line 430)
PackMaxVal(pa) ==
    IF pa = None THEN WidgetMax ELSE IF Val(pa) >= 0 THEN Val(pa) ELSE 0

\* Variant: a line is appended for every widget, whatever its quantity.
Selections_with_zero(sport_id, shown) ==
    IF sport_mode[sport_id] = "flexible"
    THEN LET mats == get_materials_by_sport(sport_id)
             ids == { mats[i] : i \in DOMAIN mats }
             qtys == { q \in [ids -> 0..MaxQty] :
                         \A m \in ids : q[m] <= MaterialMaxVal(m, shown.avail[m]) }
         IN { [i \in DOMAIN mats |-> <<"material", mats[i], q[mats[i]]>>] : q \in qtys }
    ELSE IF shown.pack_info.pack_id # NULL
         THEN { << <<"pack", shown.pack_info.pack_id, qty>> >> :
                  qty \in 0..Min(MaxQty, PackMaxVal(shown.pack_info.pack_available)) }
         ELSE { << >> }

\* The selected_lines the widgets can produce for a sport, given the
\* availability shown (lines 404-436): one line per item with qty > 0.
Selections(sport_id, shown) ==
    IF sport_mode[sport_id] = "flexible"
    THEN LET mats == get_materials_by_sport(sport_id)
             ids == { mats[i] : i \in DOMAIN mats }
             qtys == { q \in [ids -> 0..MaxQty] :
                         \A m \in ids : q[m] <= MaterialMaxVal(m, shown.avail[m]) }
         IN { SelectSeq( [i \in DOMAIN mats |-> <<"material", mats[i], q[mats[i]]>>],
                         LAMBDA l : l[3] > 0 ) : q \in qtys }
    ELSE IF shown.pack_info.pack_id # NULL
         THEN { IF qty > 0 THEN << <<"pack", shown.pack_info.pack_id, qty>> >> ELSE << >> :
                  qty \in 0..Min(MaxQty, PackMaxVal(shown.pack_info.pack_available)) }
         ELSE { << >> }

(***************************************************************************)
(* Re-validation of the stock (lines 472-486).                             *)
(***************************************************************************)

\* The availability the re-validation compares one line with.
LineAvailable(res, lin, sport_id, line, start_ts, end_ts) ==
    IF sport_mode[sport_id] = "flexible"
    THEN get_material_available(res, lin, line[2], start_ts, end_ts)
    ELSE get_pack_available(res, lin, line[2], start_ts, end_ts)

\* Variant: (avail is not None) and (qty > avail + 1)
LineFails_lax(res, lin, sport_id, line, start_ts, end_ts) ==
    LET avail == LineAvailable(res, lin, sport_id, line, start_ts, end_ts)
    IN avail # None /\ line[3] > Val(avail) + 1

\* (avail is not None) and (qty > avail)
LineFails(res, lin, sport_id, line, start_ts, end_ts) ==
    LET avail == LineAvailable(res, lin, sport_id, line, start_ts, end_ts)
    IN avail # None /\ line[3] > Val(avail)

\* Variant: ok_all assigned by every iteration, so the last line decides.
ok_all_last(res, lin, sport_id, lines, start_ts, end_ts) ==
    \/ lines = << >>
    \/ ~LineFails(res, lin, sport_id, lines[Len(lines)], start_ts, end_ts)

\* Variant: the lines are compared with the availability of a store without
\* reservations (what the form was rendered against) instead of the current one.
ok_all_snapshot(res, lin, sport_id, lines, start_ts, end_ts) ==
    \A i \in DOMAIN lines : ~LineFails(<< >>, << >>, sport_id, lines[i], start_ts, end_ts)

\* ok_all after the loop
ok_all(res, lin, sport_id, lines, start_ts, end_ts) ==
    \A i \in DOMAIN lines : ~LineFails(res, lin, sport_id, lines[i], start_ts, end_ts)

(***************************************************************************)
(* create_reservation: one transaction (engine.begin) inserting the header *)
(* and then each line.  fail is the statement that raises: 0 the header    *)
(* insert, k the insert of line k, Len(lines) + 1 none.  The result is the *)
(* content of both tables after the with block, the new id (0 when there   *)
(* is none) and whether the call raised.                                   *)
(***************************************************************************)
\* The value of column estat of a row inserted without one.  The INSERT of
\* lines 247-262 names no estat and the table definition is not in the source;
\* the state machine of the specification starts a reservation as confirmed.
estat_default == "confirmada"

NewReservation(data_header, sport_id) ==
    [ sport_id |-> sport_id,
      header |-> data_header.header,
      data_recollida |-> data_header.data_recollida,
      data_retorn |-> data_header.data_retorn,
      estat |-> estat_default,
      calendar_event_id |-> None ]       \* not set by the INSERT

NewLine(res_id, line) ==
    IF line[1] = "material"
    THEN [reserva_id |-> res_id, material_id |-> line[2], pack_id |-> NULL, qty |-> line[3]]
    ELSE [reserva_id |-> res_id, material_id |-> NULL, pack_id |-> line[2], qty |-> line[3]]

\* The statements the transaction executed before it raised (or all of them).
TxInserted(res, lin, data_header, lines, sport_id, fail) ==
    LET res_id == Len(res) + 1
        done == IF fail = 0 THEN 0 ELSE fail - 1
    IN [ reserves |-> IF fail = 0 THEN res
                      ELSE Append(res, NewReservation(data_header, sport_id)),
         reserve_lines |-> lin \o [i \in 1..done |-> NewLine(res_id, lines[i])] ]

\* Variant: every statement commits on its own (engine.connect with autocommit),
\* so the statements executed before the failure stay.
create_reservation_autocommit(res, lin, data_header, lines, sport_id, fail) ==
    LET tx == TxInserted(res, lin, data_header, lines, sport_id, fail)
    IN [ reserves |-> tx.reserves, reserve_lines |-> tx.reserve_lines,
         res_id |-> IF fail > Len(lines) THEN Len(res) + 1 ELSE 0,
         raised |-> fail <= Len(lines) ]

create_reservation(res, lin, data_header, lines, sport_id, fail) ==
    LET tx == TxInserted(res, lin, data_header, lines, sport_id, fail)
    IN IF fail > Len(lines)
       THEN [ reserves |-> tx.reserves, reserve_lines |-> tx.reserve_lines,
              res_id |-> Len(res) + 1, raised |-> FALSE ]             \* commit
       ELSE [ reserves |-> res, reserve_lines |-> lin,
              res_id |-> 0, raised |-> TRUE ]                      \* rollback

(***************************************************************************)
(* Lifecycle.                                                              *)
(***************************************************************************)
Terminal == {"cancel·lada", "finalitzada"}
Estats == {"confirmada"} \cup Terminal

\* Variant: ... AND data_retorn <= :now
mark_finished_reservations_le(res, t) ==
    [ i \in DOMAIN res |->
        IF res[i].estat = "confirmada" /\ Le(res[i].data_retorn, t)
        THEN [res[i] EXCEPT !.estat = "finalitzada"] ELSE res[i] ]

\* mark_finished_reservations: UPDATE ... WHERE estat='confirmada' AND data_retorn < :now
mark_finished_reservations(res, t) ==
    [ i \in DOMAIN res |->
        IF res[i].estat = "confirmada" /\ Lt(res[i].data_retorn, t)
        THEN [res[i] EXCEPT !.estat = "finalitzada"] ELSE res[i] ]

\* get_event_id_by_reservation
get_event_id_by_reservation(res, res_id) ==
    IF res_id \in DOMAIN res THEN res[res_id].calendar_event_id ELSE None

\* update_calendar_event_id: UPDATE reserves SET calendar_event_id WHERE id
update_calendar_event_id(res, res_id, event_id) ==
    [ i \in DOMAIN res |->
        IF i = res_id THEN [res[i] EXCEPT !.calendar_event_id = event_id] ELSE res[i] ]

\* Variant: the UPDATE also blanks the contact fields of the row.
update_reservation_status_blanking(res, res_id, new_status) ==
    [ i \in DOMAIN res |->
        IF i = res_id
        THEN [res[i] EXCEPT !.estat = new_status,
                            !.header = [n \in DOMAIN res[i].header |-> ""]]
        ELSE res[i] ]

\* update_reservation_status: UPDATE reserves SET estat WHERE id
update_reservation_status(res, res_id, new_status) ==
    [ i \in DOMAIN res |->
        IF i = res_id THEN [res[i] EXCEPT !.estat = new_status] ELSE res[i] ]

(***************************************************************************)
(* State.                                                                  *)
(***************************************************************************)
VARIABLES
    reserves,        \* table reserves: sequence of rows, row i has id i
    reserve_lines,   \* table reserve_lines: sequence of rows
    calendar,        \* ids of the events that exist in the Google calendar
    form,            \* public sessions: widget values and position in the run
    admin,           \* admin sessions: st.session_state
    ENABLE_CALENDAR, \* configuration toggles
    ENABLE_EMAIL,
    email_log,       \* reservation ids enviar_email was called for
    delete_log,      \* event ids delete_google_calendar_event was called for
    interleaved,     \* some submission ran between another's re-check and insert
    raced,           \* some submission inserted after the store changed under it
    query,           \* the call of the availability engine under test
    answer           \* and what it returned

vars == << reserves, reserve_lines, calendar, form, admin, ENABLE_CALENDAR,
           ENABLE_EMAIL, email_log, delete_log, interleaved, raced, query, answer >>

store == <<reserves, reserve_lines>>
config == <<ENABLE_CALENDAR, ENABLE_EMAIL>>
engine_test == <<query, answer>>
history == <<interleaved, raced>>

\* A session that has just opened the form: today's dates, the first sport,
\* nothing selected.  filled: whether the last form sent had every required
\* field filled; res_id: the id create_reservation returned to the run in
\* progress; stale: whether the store changed since the run's re-check;
\* result: what the last run displayed.
BlankForm ==
    [ pc |-> "form",
      data_recollida |-> 0, data_retorn |-> 0,
      sport_id |-> "s1",
      selected_lines |-> << >>,
      filled |-> FALSE,
      res_id |-> 0,
      stale |-> FALSE,
      result |-> "none" ]

\* st.session_state of an admin session; 0 is the None of confirm_id.
BlankAdmin ==
    [ confirm_action |-> NULL, confirm_id |-> 0, disabled_buttons |-> {} ]

\* No call of the availability engine is under test.
NoQuery == [mid |-> "m1", start_ts |-> <<0, StartOfDay>>, end_ts |-> <<0, StartOfDay>>]
NoAnswer == [asked |-> FALSE, value |-> None]

\* The instants datetime.now() is read at: start and end of each day, and of
\* the day after the last one.
Clock == { <<d, t>> : d \in 0..MaxDay + 1, t \in {StartOfDay, EndOfDay} }

(***************************************************************************)
(* The public form.                                                        *)
(***************************************************************************)

\* A script run that renders the form for the chosen dates and sport (lines
\* 377-434): the availability is computed for the range (line 401) and bounds
\* the quantities.  A session starts no new form once the table is at its
\* bound.
Select(s) ==
    /\ form[s].pc = "form"
    /\ Len(reserves) < MaxRes
    /\ \E d1 \in Days, d2 \in Days, sp \in SportIds :
         LET rng == normalize_range(d1, d2)
             shown == get_availability_map(reserves, reserve_lines, sp, rng[1], rng[2])
         IN \E lines \in Selections(sp, shown) :
              form' = [form EXCEPT ![s] =
                         [@ EXCEPT !.data_recollida = d1, !.data_retorn = d2,
                                   !.sport_id = sp, !.selected_lines = lines,
                                   !.result = "none"]]
    /\ UNCHANGED << store, calendar, admin, config, email_log, delete_log,
                    history, engine_test >>

\* Another session is between its re-check and its insert.
OtherInWindow(s) == \E t \in DOMAIN form : t # s /\ form[t].pc = "create"

\* Variant: the elif of line 465 is left out, the dates are not compared.
From465_nodates(f) ==
    LET rng == normalize_range(f.data_recollida, f.data_retorn)
    IN IF f.selected_lines = << >>
       THEN [f EXCEPT !.result = "error_lines"]
       ELSE IF ok_all(reserves, reserve_lines, f.sport_id, f.selected_lines, rng[1], rng[2])
       THEN [f EXCEPT !.result = "none", !.pc = "create", !.stale = FALSE]
       ELSE [f EXCEPT !.result = "error_avail"]

\* Lines 465-488 for session record f: the elif chain after the required-field
\* test, the last branch being the re-validation against the store as it is
\* now.  The session goes on to create_reservation only if ok_all.
From465(f) ==
    LET rng == normalize_range(f.data_recollida, f.data_retorn)
    IN IF f.data_retorn < f.data_recollida
       THEN [f EXCEPT !.result = "error_dates"]
       ELSE IF f.selected_lines = << >>
       THEN [f EXCEPT !.result = "error_lines"]
       ELSE IF ok_all(reserves, reserve_lines, f.sport_id, f.selected_lines, rng[1], rng[2])
       THEN [f EXCEPT !.result = "none", !.pc = "create", !.stale = FALSE]
       ELSE [f EXCEPT !.result = "error_avail"]

\* Lines 462-488 for session record f and the submitted header, as the script
\* evaluates them.  A NameError ends the run.
From462(f, hdr) ==
    LET c == Line463(hdr)
        g == [f EXCEPT !.filled = \A n \in RequiredNames : hdr[n] # ""]
    IN IF c = "NameError" THEN [g EXCEPT !.result = "NameError"]
       ELSE IF c = "true" THEN [g EXCEPT !.result = "error_required"]
       ELSE From465(g)

\* "Enviar reserva" pressed (lines 462-488).
Submit(s) ==
    /\ form[s].pc = "form"
    /\ \E hdr \in Headers : form' = [form EXCEPT ![s] = From462(@, hdr)]
    /\ interleaved' = (interleaved \/ OtherInWindow(s))
    /\ UNCHANGED << store, calendar, admin, config, email_log, delete_log,
                    raced, engine_test >>

\* The same run from line 465 on, for a form whose required fields are all
\* filled: the branch taken when the condition of line 463 is false.
SubmitElse(s) ==
    /\ form[s].pc = "form"
    /\ Len(reserves) < MaxRes
    /\ form' = [form EXCEPT ![s] = From465([@ EXCEPT !.filled = TRUE])]
    /\ interleaved' = (interleaved \/ OtherInWindow(s))
    /\ UNCHANGED << store, calendar, admin, config, email_log, delete_log,
                    raced, engine_test >>

\* Lines 489-506: create_reservation.  An exception ends the script run.
Create(s) ==
    /\ form[s].pc = "create"
    /\ Len(reserves) < MaxRes
    /\ LET f == form[s]
           rng == normalize_range(f.data_recollida, f.data_retorn)
           data_dict == [ header |-> FilledHeader,
                          data_recollida |-> rng[1], data_retorn |-> rng[2] ]
       IN \E fail \in 0..Len(f.selected_lines) + 1 :
            LET r == create_reservation(reserves, reserve_lines, data_dict,
                                        f.selected_lines, f.sport_id, fail)
            IN /\ reserves' = r.reserves
               /\ reserve_lines' = r.reserve_lines
               /\ form' = [ t \in DOMAIN form |->
                    IF t = s
                    THEN IF r.raised
                         THEN [form[t] EXCEPT !.pc = "form", !.stale = FALSE,
                                              !.result = "PersistenceError"]
                         ELSE [form[t] EXCEPT !.pc = "notify", !.stale = FALSE,
                                              !.res_id = r.res_id]
                    ELSE IF ~r.raised /\ form[t].pc = "create"
                         THEN [form[t] EXCEPT !.stale = TRUE]
                         ELSE form[t] ]
               /\ raced' = (raced \/ (~r.raised /\ f.stale))
    /\ interleaved' = (interleaved \/ OtherInWindow(s))
    /\ UNCHANGED << calendar, admin, config, email_log, delete_log, engine_test >>

\* Variant: a calendar failure cancels the reservation that was just stored.
Notify_unwinding(s) ==
    /\ form[s].pc = "notify"
    /\ \E event_ok \in BOOLEAN, stored_ok \in BOOLEAN :
         LET rid == form[s].res_id
         IN /\ email_log' = IF ENABLE_EMAIL THEN email_log \cup {rid} ELSE email_log
            /\ calendar' = IF ENABLE_CALENDAR /\ event_ok
                           THEN calendar \cup {rid} ELSE calendar
            /\ reserves' = IF ENABLE_CALENDAR /\ event_ok /\ stored_ok
                           THEN update_calendar_event_id(reserves, rid, Some(rid))
                           ELSE IF ENABLE_CALENDAR
                           THEN update_reservation_status(reserves, rid, "cancel·lada")
                           ELSE reserves
    /\ form' = [form EXCEPT ![s] =
                  [@ EXCEPT !.pc = "form", !.res_id = 0, !.result = "success"]]
    /\ UNCHANGED << reserve_lines, admin, config, delete_log, history, engine_test >>

\* Lines 508-553: the confirmation e-mails and the calendar event, each in its
\* own try/except.  event_ok, stored_ok: whether create_google_calendar_event
\* and update_calendar_event_id succeed (a failing enviar_email only warns).
Notify(s) ==
    /\ form[s].pc = "notify"
    /\ \E event_ok \in BOOLEAN, stored_ok \in BOOLEAN :
         LET rid == form[s].res_id
         IN /\ email_log' = IF ENABLE_EMAIL THEN email_log \cup {rid} ELSE email_log
            /\ calendar' = IF ENABLE_CALENDAR /\ event_ok
                           THEN calendar \cup {rid} ELSE calendar
            /\ reserves' = IF ENABLE_CALENDAR /\ event_ok /\ stored_ok
                           THEN update_calendar_event_id(reserves, rid, Some(rid))
                           ELSE reserves
    /\ form' = [form EXCEPT ![s] =
                  [@ EXCEPT !.pc = "form", !.res_id = 0, !.result = "success"]]
    /\ UNCHANGED << reserve_lines, admin, config, delete_log, history, engine_test >>

(***************************************************************************)
(* The administration page.  The script run that handles a click reads the *)
(* reservations again (line 567) before it evaluates the buttons, so a     *)
(* button counts as pressed only if that run renders it enabled.           *)
(***************************************************************************)

\* disabled_by_status or (id, action) in disabled_buttons (lines 590-601)
ButtonDisabled(a, r, act) ==
    reserves[r].estat \in Terminal \/ <<r, act>> \in admin[a].disabled_buttons

\* "Cancel·lar" or "Finalitzar" pressed on reservation r (lines 595-605)
Click(a, r, act) ==
    /\ ~ButtonDisabled(a, r, act)
    /\ admin' = [admin EXCEPT ![a] =
                    [@ EXCEPT !.confirm_action = act, !.confirm_id = r]]
    /\ UNCHANGED << store, calendar, form, config, email_log, delete_log,
                    history, engine_test >>

ClickCancel(a) == \E r \in DOMAIN reserves : Click(a, r, "cancel")
ClickFinish(a) == \E r \in DOMAIN reserves : Click(a, r, "finish")

\* The confirmation dialog is shown (line 607)
DialogShown(a) == admin[a].confirm_action # NULL /\ admin[a].confirm_id # 0

\* The status the dialog's action asks for (lines 617-621)
NewStatus(act) == IF act = "cancel" THEN "cancel·lada" ELSE "finalitzada"

\* Variant: delete_google_calendar_event without its try/except, a failed
\* deletion ending the run before the UPDATE.
Confirm_delete_raises(a) ==
    /\ DialogShown(a)
    /\ \E deleted_ok \in BOOLEAN, stored_ok \in BOOLEAN :
         LET rid == admin[a].confirm_id
             act == admin[a].confirm_action
             new_status == NewStatus(act)
             event_id == IF ENABLE_CALENDAR /\ new_status \in Terminal
                         THEN get_event_id_by_reservation(reserves, rid) ELSE None
             updated == (event_id = None \/ deleted_ok) /\ stored_ok
         IN /\ delete_log' = IF event_id # None
                             THEN delete_log \cup {Val(event_id)} ELSE delete_log
            /\ calendar' = IF event_id # None /\ deleted_ok
                           THEN calendar \ {Val(event_id)} ELSE calendar
            /\ reserves' = IF updated
                           THEN update_reservation_status(reserves, rid, new_status)
                           ELSE reserves
            /\ admin' = IF updated
                        THEN [admin EXCEPT ![a] =
                                [ confirm_action |-> NULL, confirm_id |-> 0,
                                  disabled_buttons |->
                                    @.disabled_buttons \cup {<<rid, act>>} ]]
                        ELSE admin
    /\ UNCHANGED << reserve_lines, form, config, email_log, history, engine_test >>

\* Variant: update_reservation_status first, the event deleted only once the
\* new state is stored.
Confirm_persist_first(a) ==
    /\ DialogShown(a)
    /\ \E deleted_ok \in BOOLEAN, stored_ok \in BOOLEAN :
         LET rid == admin[a].confirm_id
             act == admin[a].confirm_action
             new_status == NewStatus(act)
             event_id == IF ENABLE_CALENDAR /\ new_status \in Terminal /\ stored_ok
                         THEN get_event_id_by_reservation(reserves, rid) ELSE None
         IN /\ delete_log' = IF event_id # None
                             THEN delete_log \cup {Val(event_id)} ELSE delete_log
            /\ calendar' = IF event_id # None /\ deleted_ok
                           THEN calendar \ {Val(event_id)} ELSE calendar
            /\ reserves' = IF stored_ok
                           THEN update_reservation_status(reserves, rid, new_status)
                           ELSE reserves
            /\ admin' = IF stored_ok
                        THEN [admin EXCEPT ![a] =
                                [ confirm_action |-> NULL, confirm_id |-> 0,
                                  disabled_buttons |->
                                    @.disabled_buttons \cup {<<rid, act>>} ]]
                        ELSE admin
    /\ UNCHANGED << reserve_lines, form, config, email_log, history, engine_test >>

\* "Sí, confirmar" pressed (lines 616-626) with
\* update_reservation_status_with_calendar (lines 340-345).  deleted_ok:
\* whether the calendar deletion succeeds (its exception is swallowed);
\* stored_ok: whether the UPDATE commits (its exception ends the run).
Confirm(a) ==
    /\ DialogShown(a)
    /\ \E deleted_ok \in BOOLEAN, stored_ok \in BOOLEAN :
         LET rid == admin[a].confirm_id
             act == admin[a].confirm_action
             new_status == NewStatus(act)
             event_id == IF ENABLE_CALENDAR /\ new_status \in Terminal
                         THEN get_event_id_by_reservation(reserves, rid) ELSE None
         IN /\ delete_log' = IF event_id # None
                             THEN delete_log \cup {Val(event_id)} ELSE delete_log
            /\ calendar' = IF event_id # None /\ deleted_ok
                           THEN calendar \ {Val(event_id)} ELSE calendar
            /\ reserves' = IF stored_ok
                           THEN update_reservation_status(reserves, rid, new_status)
                           ELSE reserves
            /\ admin' = IF stored_ok
                        THEN [admin EXCEPT ![a] =
                                [ confirm_action |-> NULL, confirm_id |-> 0,
                                  disabled_buttons |->
                                    @.disabled_buttons \cup {<<rid, act>>} ]]
                        ELSE admin
    /\ UNCHANGED << reserve_lines, form, config, email_log, history, engine_test >>

\* "Cancel·lar acció" pressed (lines 628-630)
CancelConfirm(a) ==
    /\ DialogShown(a)
    /\ admin' = [admin EXCEPT ![a] = [@ EXCEPT !.confirm_action = NULL, !.confirm_id = 0]]
    /\ UNCHANGED << store, calendar, form, config, email_log, delete_log,
                    history, engine_test >>

\* "Marcar reserves passades com a finalitzades" pressed (lines 562-565);
\* t is what datetime.now() returns.
MarkFinished(a) ==
    /\ \E t \in Clock : reserves' = mark_finished_reservations(reserves, t)
    /\ UNCHANGED << reserve_lines, calendar, form, admin, config, email_log,
                    delete_log, history, engine_test >>

AdminNext ==
    \/ \E a \in DOMAIN admin : ClickCancel(a)
    \/ \E a \in DOMAIN admin : ClickFinish(a)
    \/ \E a \in DOMAIN admin : Confirm(a)
    \/ \E a \in DOMAIN admin : CancelConfirm(a)
    \/ \E a \in DOMAIN admin : MarkFinished(a)

(***************************************************************************)
(* Initial states.                                                         *)
(***************************************************************************)

\* The content the two tables can have when the application starts: the
\* reservations that runs of lines 470-506, one after the other, write into
\* an empty store (n of them at most).
RECURSIVE SeedStores(_)
SeedStores(n) ==
    IF n = 0 THEN { [reserves |-> << >>, reserve_lines |-> << >>] }
    ELSE LET prev == SeedStores(n - 1)
         IN prev \cup
            { [ reserves |-> r.reserves, reserve_lines |-> r.reserve_lines ] :
                r \in { create_reservation(
                          st.reserves, st.reserve_lines,
                          [ header |-> FilledHeader,
                            data_recollida |-> normalize_range(b[1], b[2])[1],
                            data_retorn |-> normalize_range(b[1], b[2])[2] ],
                          b[4], b[3], Len(b[4]) + 1) :
                        <<st, b>> \in
                          { <<st, b>> \in prev \X
                              UNION { { <<d1, d2, sp, lines>> :
                                          lines \in Selections(sp,
                                            [ avail |-> [m \in MaterialIds |-> Some(MaxQty)],
                                              pack_info |-> [ pack_id |-> get_pack_for_sport(sp),
                                                              pack_available |-> Some(MaxQty) ] ])
                                                    \ { << >> } } :
                                      <<d1, d2, sp>> \in Days \X Days \X SportIds } :
                              /\ Len(st.reserves) = n - 1
                              /\ b[1] <= b[2]
                              /\ ok_all(st.reserves, st.reserve_lines, b[3], b[4],
                                        normalize_range(b[1], b[2])[1],
                                        normalize_range(b[1], b[2])[2]) } } }

InitSessions(users, admins) ==
    /\ form = [s \in users |-> BlankForm]
    /\ admin = [a \in admins |-> BlankAdmin]
    /\ email_log = {}
    /\ delete_log = {}
    /\ interleaved = FALSE
    /\ raced = FALSE
    /\ query = NoQuery
    /\ answer = NoAnswer

(***************************************************************************)
(* Spec: the public form as the script runs it, against a store that holds *)
(* earlier reservations.                                                   *)
(***************************************************************************)
Init ==
    /\ \E st \in SeedStores(MaxRes - 1) :
         reserves = st.reserves /\ reserve_lines = st.reserve_lines
    /\ calendar = {}
    /\ ENABLE_CALENDAR \in BOOLEAN
    /\ ENABLE_EMAIL \in BOOLEAN
    /\ InitSessions({"u1"}, {})

Next ==
    \/ \E s \in DOMAIN form : Select(s)
    \/ \E s \in DOMAIN form : Submit(s)

Spec == Init /\ [][Next]_vars

(***************************************************************************)
(* SpecAdmin: the administration page, against a store that holds earlier  *)
(* reservations, some of them with a calendar event.                       *)
(***************************************************************************)
InitAdmin ==
    /\ \E st \in SeedStores(MaxRes) :
         \E evs \in SUBSET DOMAIN st.reserves :
            /\ reserves = [ i \in DOMAIN st.reserves |->
                              [st.reserves[i] EXCEPT !.calendar_event_id =
                                 IF i \in evs THEN Some(i) ELSE None] ]
            /\ reserve_lines = st.reserve_lines
            /\ calendar = evs
    /\ ENABLE_CALENDAR \in BOOLEAN
    /\ ENABLE_EMAIL = TRUE
    /\ InitSessions({}, {"a1"})

SpecAdmin == InitAdmin /\ [][AdminNext]_vars

(***************************************************************************)
(* SpecSubmit: one public session running the submission from line 465 on, *)
(* cut at the store calls, and the administration page, against a store    *)
(* that starts empty; the integrations are switched off.                   *)
(***************************************************************************)
InitSubmit ==
    /\ reserves = << >>
    /\ reserve_lines = << >>
    /\ calendar = {}
    /\ ENABLE_CALENDAR = FALSE
    /\ ENABLE_EMAIL = FALSE
    /\ InitSessions({"u1"}, {"a1"})

PublicNext ==
    \/ \E s \in DOMAIN form : Select(s)
    \/ \E s \in DOMAIN form : SubmitElse(s)
    \/ \E s \in DOMAIN form : Create(s)
    \/ \E s \in DOMAIN form : Notify(s)

NextSubmit == PublicNext \/ AdminNext

SpecSubmit == InitSubmit /\ [][NextSubmit]_vars

(***************************************************************************)
(* SpecNotify: one public session running the submission from line 465 on  *)
(* against a store that starts empty, with the integrations switched on or *)
(* off.                                                                    *)
(***************************************************************************)
InitNotify ==
    /\ reserves = << >>
    /\ reserve_lines = << >>
    /\ calendar = {}
    /\ ENABLE_CALENDAR \in BOOLEAN
    /\ ENABLE_EMAIL \in BOOLEAN
    /\ InitSessions({"u1"}, {})

SpecNotify == InitNotify /\ [][PublicNext]_vars

(***************************************************************************)
(* SpecRace: two public sessions that rendered their forms while the store *)
(* was empty (lines 377-434) and run the submission concurrently.          *)
(***************************************************************************)
RenderedForms ==
    UNION { { [BlankForm EXCEPT !.data_recollida = d[1], !.data_retorn = d[2],
                                !.sport_id = sp, !.selected_lines = lines] :
                lines \in Selections(sp,
                            get_availability_map(<< >>, << >>, sp,
                                                 normalize_range(d[1], d[2])[1],
                                                 normalize_range(d[1], d[2])[2])) } :
            <<d, sp>> \in (Days \X Days) \X SportIds }

InitRace ==
    /\ reserves = << >>
    /\ reserve_lines = << >>
    /\ calendar = {}
    /\ ENABLE_CALENDAR = FALSE
    /\ ENABLE_EMAIL = FALSE
    /\ admin = << >>
    /\ email_log = {}
    /\ delete_log = {}
    /\ interleaved = FALSE
    /\ raced = FALSE
    /\ query = NoQuery
    /\ answer = NoAnswer
    /\ form \in [{"u1", "u2"} -> RenderedForms]

NextRace ==
    \/ \E s \in DOMAIN form : SubmitElse(s)
    \/ \E s \in DOMAIN form : Create(s)
    \/ \E s \in DOMAIN form : Notify(s)

SpecRace == InitRace /\ [][NextRace]_vars

(***************************************************************************)
(* SpecScript2: the same two sessions with the submission as the script    *)
(* runs it from line 462.                                                  *)
(***************************************************************************)
NextScript2 == \E s \in DOMAIN form : Submit(s)

SpecScript2 == InitRace /\ [][NextScript2]_vars

(***************************************************************************)
(* SpecAvail: get_material_available applied to a store that holds one     *)
(* reservation with one line, for every interval of the reservation and of *)
(* the query.                                                              *)
(***************************************************************************)
Instants == { <<d, t>> : d \in Days, t \in {StartOfDay, EndOfDay} }

TestLines == { <<"material", m, q>> : m \in MaterialIds, q \in 1..MaxQty }
             \cup { <<"pack", p, q>> : p \in PackIds, q \in 1..MaxQty }

InitAvail ==
    /\ \E c \in Instants, d \in Instants, e \in Estats, line \in TestLines :
         /\ Le(c, d)
         /\ reserves = << [ NewReservation([ header |-> FilledHeader,
                                             data_recollida |-> c, data_retorn |-> d ],
                                           IF line[1] = "material" THEN "s1" ELSE "s2")
                            EXCEPT !.estat = e ] >>
         /\ reserve_lines = << NewLine(1, line) >>
    /\ calendar = {}
    /\ ENABLE_CALENDAR = FALSE
    /\ ENABLE_EMAIL = FALSE
    /\ form = << >>
    /\ admin = << >>
    /\ email_log = {}
    /\ delete_log = {}
    /\ interleaved = FALSE
    /\ raced = FALSE
    /\ answer = NoAnswer
    /\ query \in { q \in [mid : MaterialIds, start_ts : Instants, end_ts : Instants] :
                     Le(q.start_ts, q.end_ts) }

\* The call get_material_available(query.mid, query.start_ts, query.end_ts)
Ask ==
    /\ ~answer.asked
    /\ answer' = [ asked |-> TRUE,
                   value |-> get_material_available(reserves, reserve_lines, query.mid,
                                                    query.start_ts, query.end_ts) ]
    /\ UNCHANGED << store, calendar, form, admin, config, email_log, delete_log,
                    history, query >>

SpecAvail == InitAvail /\ [][Ask]_vars

(***************************************************************************)
(* SpecAvail2: get_material_available applied to a store that holds two    *)
(* reservations with one line each: the first in any state and over any    *)
(* interval, the second confirmed over the first day or over all days.     *)
(***************************************************************************)
TestReservation(rng, e, line) ==
    [ NewReservation([ header |-> FilledHeader,
                       data_recollida |-> rng[1], data_retorn |-> rng[2] ],
                     IF line[1] = "material" THEN "s1" ELSE "s2")
      EXCEPT !.estat = e ]

TwoReservationStores ==
    { [ reserves |-> << TestReservation(<<c, d>>, e, l1),
                        TestReservation(rng2, "confirmada", l2) >>,
        reserve_lines |-> << NewLine(1, l1), NewLine(2, l2) >> ] :
      <<c, d, e, l1, rng2, l2>> \in
        { x \in Instants \X Instants \X Estats \X TestLines
                 \X {normalize_range(0, 0), normalize_range(0, MaxDay)} \X TestLines :
            Le(x[1], x[2]) } }

InitAvail2 ==
    /\ \E st \in TwoReservationStores :
         reserves = st.reserves /\ reserve_lines = st.reserve_lines
    /\ calendar = {}
    /\ ENABLE_CALENDAR = FALSE
    /\ ENABLE_EMAIL = FALSE
    /\ form = << >>
    /\ admin = << >>
    /\ email_log = {}
    /\ delete_log = {}
    /\ interleaved = FALSE
    /\ raced = FALSE
    /\ answer = NoAnswer
    /\ query \in { q \in [mid : MaterialIds, start_ts : Instants, end_ts : Instants] :
                     Le(q.start_ts, q.end_ts) }

SpecAvail2 == InitAvail2 /\ [][Ask]_vars

(***************************************************************************)
(* SpecPack: get_pack_available applied to the same stores, for every pack *)
(* of the catalogue.                                                       *)
(***************************************************************************)
InitPack ==
    /\ \E st \in TwoReservationStores :
         reserves = st.reserves /\ reserve_lines = st.reserve_lines
    /\ calendar = {}
    /\ ENABLE_CALENDAR = FALSE
    /\ ENABLE_EMAIL = FALSE
    /\ form = << >>
    /\ admin = << >>
    /\ email_log = {}
    /\ delete_log = {}
    /\ interleaved = FALSE
    /\ raced = FALSE
    /\ answer = NoAnswer
    /\ query \in { q \in [ pack_id : PackIds \cup UnofferedPackIds,
                            start_ts : Instants, end_ts : Instants ] :
                     Le(q.start_ts, q.end_ts) }

\* The call get_pack_available(query.pack_id, query.start_ts, query.end_ts)
AskPack ==
    /\ ~answer.asked
    /\ answer' = [ asked |-> TRUE,
                   value |-> get_pack_available(reserves, reserve_lines, query.pack_id,
                                                query.start_ts, query.end_ts) ]
    /\ UNCHANGED << store, calendar, form, admin, config, email_log, delete_log,
                    history, query >>

SpecPack == InitPack /\ [][AskPack]_vars

(***************************************************************************)
(* SpecBatch: mark_finished_reservations applied to the same stores at     *)
(* every instant of the clock.                                             *)
(***************************************************************************)
InitBatch ==
    /\ \E st \in TwoReservationStores :
         reserves = st.reserves /\ reserve_lines = st.reserve_lines
    /\ calendar = {}
    /\ ENABLE_CALENDAR = FALSE
    /\ ENABLE_EMAIL = FALSE
    /\ form = << >>
    /\ admin = << >>
    /\ email_log = {}
    /\ delete_log = {}
    /\ interleaved = FALSE
    /\ raced = FALSE
    /\ answer = NoAnswer
    /\ query \in [now : Clock]

\* The call mark_finished_reservations() while datetime.now() is query.now
Batch ==
    /\ ~answer.asked
    /\ reserves' = mark_finished_reservations(reserves, query.now)
    /\ answer' = [asked |-> TRUE, value |-> None]
    /\ UNCHANGED << reserve_lines, calendar, form, admin, config, email_log,
                    delete_log, history, query >>

SpecBatch == InitBatch /\ [][Batch]_vars

(***************************************************************************)
(* SpecLife: the life of a reservation with the calendar integration on:   *)
(* one public session from line 465 on and the administration page,        *)
(* against a store that starts empty.                                      *)
(***************************************************************************)
InitLife ==
    /\ reserves = << >>
    /\ reserve_lines = << >>
    /\ calendar = {}
    /\ ENABLE_CALENDAR = TRUE
    /\ ENABLE_EMAIL = FALSE
    /\ InitSessions({"u1"}, {"a1"})

SpecLife == InitLife /\ [][NextSubmit]_vars

(***************************************************************************)
(* Properties.                                                             *)
(***************************************************************************)

\* x is later than y, for datetime values
After(x, y) == x[1] > y[1] \/ (x[1] = y[1] /\ x[2] > y[2])

\* The units of material m that a row of reserve_lines asks for: its qty if it
\* names m, qty times the pack's qty_required of m if it names a pack.
LineDemand(l, m) ==
    IF l.material_id = m THEN l.qty
    ELSE IF l.pack_id = NULL THEN 0
    ELSE LET cs == { c \in pack_components :
                       c.pack_id = l.pack_id /\ c.material_id = m }
         IN l.qty * SumOver([c \in cs |-> c.qty_required], cs)

\* What the confirmed reservations whose interval contains instant t ask of m.
DemandAt(m, t) ==
    LET rows == { k \in DOMAIN reserve_lines :
                    LET r == reserves[reserve_lines[k].reserva_id]
                    IN /\ r.estat = "confirmada"
                       /\ ~After(r.data_recollida, t)
                       /\ ~After(t, r.data_retorn) }
    IN SumOver([k \in rows |-> LineDemand(reserve_lines[k], m)], rows)

Overbooked ==
    \E m \in MaterialIds, t \in Instants :
        stock[m] # None /\ DemandAt(m, t) > Val(stock[m])

\* The submission of session record f names a line that exceeds the current
\* availability.
AnyLineFails(f) ==
    LET rng == normalize_range(f.data_recollida, f.data_retorn)
    IN \E i \in DOMAIN f.selected_lines :
         LineFails(reserves, reserve_lines, f.sport_id, f.selected_lines[i],
                   rng[1], rng[2])

\* Return date not before pickup date, at least one line, every line within
\* the current availability.
ValidSubmission(f) ==
    /\ f.data_retorn >= f.data_recollida
    /\ f.selected_lines # << >>
    /\ ~AnyLineFails(f)

\* This step is a script run that handles "Enviar reserva" for session s.
IsSubmitStep(s) ==
    /\ form[s].pc = "form"
    /\ form'[s] # form[s]
    /\ (form'[s].pc = "create" \/ form'[s].result # "none")

\* This step adds or removes a row of reserves or of reserve_lines.
RowsChange ==
    Len(reserves') # Len(reserves) \/ reserve_lines' # reserve_lines

\* This step adds to the store exactly one confirmed reservation for the dates
\* and sport of session record f, and exactly its selected lines.
StoresSubmission(f) ==
    LET id == Len(reserves) + 1
    IN /\ Len(reserves') = id
       /\ \A i \in DOMAIN reserves : reserves'[i] = reserves[i]
       /\ reserves'[id].estat = "confirmada"
       /\ reserves'[id].sport_id = f.sport_id
       /\ reserves'[id].data_recollida = <<f.data_recollida, StartOfDay>>
       /\ reserves'[id].data_retorn = <<f.data_retorn, EndOfDay>>
       /\ Len(reserve_lines') = Len(reserve_lines) + Len(f.selected_lines)
       /\ \A k \in DOMAIN reserve_lines : reserve_lines'[k] = reserve_lines[k]
       /\ \A i \in DOMAIN f.selected_lines :
            LET l == reserve_lines'[Len(reserve_lines) + i]
                line == f.selected_lines[i]
            IN /\ l.reserva_id = id
               /\ l.qty = line[3]
               /\ IF line[1] = "material"
                  THEN l.material_id = line[2] /\ l.pack_id = NULL
                  ELSE l.pack_id = line[2] /\ l.material_id = NULL

(***************************************************************************)
(* C1 .. C10                                                               *)
(***************************************************************************)

\* C1: while no submission has run between another one's re-check and its
\* insert, for every material with a finite stock and every instant the
\* confirmed reservations whose interval contains the instant ask for no more
\* than the stock, whatever the administrators cancelled or finished.
C1_NoOverbookingWhenSerial == ~interleaved => ~Overbooked

\* A material is booked up to its stock by a submission accepted after an
\* earlier reservation of it left state confirmada.
C1_Witness ==
    /\ ~interleaved
    /\ \E t \in Instants : DemandAt("m1", t) = Val(stock["m1"])
    /\ \E i \in DOMAIN reserves :
         /\ reserves[i].estat \in Terminal
         /\ \E j \in DOMAIN reserves : j > i /\ reserves[j].estat = "confirmada"

\* C2: of two sessions that send complete forms, each within the current
\* availability, the second passes the re-check as the first did, nothing
\* being persisted in between; both then insert and the demand exceeds the
\* stock.
C2_BothPassRecheck ==
    [][ \A s \in DOMAIN form, t \in DOMAIN form :
          ( /\ s # t
            /\ form[t].filled /\ ValidSubmission(form[t])
            /\ IsSubmitStep(s) /\ form'[s].filled /\ ValidSubmission(form[s]) )
          => form'[s].pc = "create" ]_vars

\* Lines 465-506 entered by two sessions: the confirmed demand exceeds a stock
\* only after a submission inserted although another one committed between
\* its re-check and its insert, and such a state is reached.
OverbookingOnlyByRace == Overbooked => raced

OverbookedByRace ==
    /\ Overbooked
    /\ raced
    /\ \A s \in DOMAIN form : form[s].result = "success"

\* C3: a reservation in state cancel·lada or finalitzada keeps its state in
\* every step.
C3_TerminalNeverChanges ==
    [][ \A i \in DOMAIN reserves :
          reserves[i].estat \in Terminal => reserves'[i].estat = reserves[i].estat ]_vars

\* C4: a submission with a line that exceeds the current availability does not
\* go on to create_reservation, and the step that handles it writes nothing:
\* rows are added only by the insert of another session.
C4_FailingLinePersistsNothing ==
    [][ \A s \in DOMAIN form :
          (form[s].pc = "form" /\ AnyLineFails(form[s]))
          => /\ form'[s].pc = "form"
             /\ RowsChange
                  => \E t \in DOMAIN form \ {s} :
                       form[t].pc = "create" /\ StoresSubmission(form[t]) ]_vars

\* A submission of two lines, one within the availability and one not, was
\* rejected.
C4_Witness ==
    \E s \in DOMAIN form :
        LET f == form[s]
            rng == normalize_range(f.data_recollida, f.data_retorn)
        IN /\ f.result = "error_avail"
           /\ Len(f.selected_lines) = 2
           /\ \E i \in DOMAIN f.selected_lines :
                ~LineFails(reserves, reserve_lines, f.sport_id, f.selected_lines[i],
                           rng[1], rng[2])
           /\ AnyLineFails(f)
           /\ \A k \in DOMAIN reserve_lines : reserve_lines[k].material_id # "m2"

\* C5: every step leaves the rows of both tables in place or adds one
\* reservation together with all of its lines; a create_reservation that
\* raises leaves no header and no line.
C5_CreateIsAtomic ==
    [][ \/ ~RowsChange
        \/ \E s \in DOMAIN form :
             /\ form[s].pc = "create"
             /\ form'[s].pc = "notify"
             /\ StoresSubmission(form[s]) ]_vars

\* create_reservation raised for a submission of two lines and the store holds
\* nothing.
C5_Witness ==
    /\ reserves = << >>
    /\ reserve_lines = << >>
    /\ \E s \in DOMAIN form :
         form[s].result = "PersistenceError" /\ Len(form[s].selected_lines) = 2

\* C6: the run that handles a submission with every required field filled,
\* return date not before pickup date, at least one line and every line within
\* the current availability goes on to create_reservation, and
\* create_reservation adds exactly one reservation in state confirmada with
\* exactly the selected lines.
C6_ValidSubmissionCreates ==
    [][ \A s \in DOMAIN form :
          /\ (IsSubmitStep(s) /\ form'[s].filled /\ ValidSubmission(form[s]))
             => form'[s].pc = "create"
          /\ (form[s].pc = "create" /\ form'[s].pc = "notify")
             => StoresSubmission(form[s]) ]_vars

\* The lines of the reservations in state confirmada.
LinesOfConfirmed ==
    SelectSeq(reserve_lines,
              LAMBDA l : reserves[l.reserva_id].estat = "confirmada")

\* C7: for every material, every pack and every query interval the
\* availability is what it would be if the lines of the cancelled and of the
\* finished reservations did not exist.
C7_OnlyConfirmedCounts ==
    \A a \in Instants, b \in Instants :
        Le(a, b) =>
          /\ \A m \in MaterialIds :
               get_material_available(reserves, reserve_lines, m, a, b)
                 = get_material_available(reserves, LinesOfConfirmed, m, a, b)
          /\ \A p \in PackIds :
               get_pack_available(reserves, reserve_lines, p, a, b)
                 = get_pack_available(reserves, LinesOfConfirmed, p, a, b)

\* A cancelled and a finished reservation both hold lines on m1 (directly or
\* through the pack) and m1 is fully available over their intervals.
C7_Witness ==
    \E i \in DOMAIN reserves, j \in DOMAIN reserves :
        /\ reserves[i].estat = "cancel·lada"
        /\ reserves[j].estat = "finalitzada"
        /\ \A r \in {i, j} :
             /\ \E k \in DOMAIN reserve_lines :
                  /\ reserve_lines[k].reserva_id = r
                  /\ LineDemand(reserve_lines[k], "m1") > 0
             /\ get_material_available(reserves, reserve_lines, "m1",
                                       reserves[r].data_recollida,
                                       reserves[r].data_retorn) = stock["m1"]

\* C8: the decision of the run that handles a submission agrees with the
\* availability computed from the store as it is in that run, whatever the
\* form showed when the lines were selected: the run goes on to
\* create_reservation only if no line exceeds that availability, and it shows
\* the stock error only if one does.
C8_DecidedOnCurrentStore ==
    [][ \A s \in DOMAIN form :
          IsSubmitStep(s) =>
            /\ form'[s].pc = "create" => ~AnyLineFails(form[s])
            /\ form'[s].result = "error_avail" => AnyLineFails(form[s]) ]_vars

\* A selection that was within the availability shown when the form was
\* rendered is rejected because another reservation was committed since.
C8_Witness ==
    \E s \in DOMAIN form :
        LET f == form[s]
            rng == normalize_range(f.data_recollida, f.data_retorn)
        IN /\ f.result = "error_avail"
           /\ \A i \in DOMAIN f.selected_lines :
                ~LineFails(<< >>, << >>, f.sport_id, f.selected_lines[i], rng[1], rng[2])
           /\ Len(reserves) = 1
           /\ reserves[1].estat = "confirmada"

\* The reservation of the store under test counts for the query: it is
\* confirmed and the query's end is after its start and the query's start
\* before its end.
CountsHalfOpen ==
    /\ reserves[1].estat = "confirmada"
    /\ After(query.end_ts, reserves[1].data_recollida)
    /\ After(reserves[1].data_retorn, query.start_ts)

\* C9: a confirmed reservation over [c, d] is counted against a query over
\* [a, b] if and only if b > c and a < d: the answer for a material with a
\* finite stock is the stock less the reservation's demand (not below 0) in
\* that case and the stock otherwise.
C9_OverlapIffStrict ==
    (answer.asked /\ stock[query.mid] # None)
    => answer.value =
         Some(Max(Val(stock[query.mid])
                    - (IF CountsHalfOpen
                       THEN LineDemand(reserve_lines[1], query.mid) ELSE 0), 0))

\* The query ends at the very instant the confirmed reservation starts and the
\* reservation is not counted.
C9_Witness ==
    /\ answer.asked
    /\ query.mid = "m1"
    /\ reserves[1].estat = "confirmada"
    /\ LineDemand(reserve_lines[1], "m1") > 0
    /\ query.end_ts = reserves[1].data_recollida
    /\ answer.value = stock["m1"]

\* C10: when the query and the reservation are the day-normalised forms of
\* date ranges q1..q2 and r1..r2, the confirmed reservation is counted if and
\* only if the two date ranges share a calendar day.
C10_CountedIffSharedDay ==
    \A q1 \in Days, q2 \in Days, r1 \in Days, r2 \in Days :
        ( /\ q1 <= q2 /\ r1 <= r2
          /\ <<query.start_ts, query.end_ts>> = normalize_range(q1, q2)
          /\ <<reserves[1].data_recollida, reserves[1].data_retorn>>
               = normalize_range(r1, r2)
          /\ answer.asked
          /\ reserves[1].estat = "confirmada"
          /\ stock[query.mid] # None
          /\ LineDemand(reserve_lines[1], query.mid) > 0 )
        => LET shared == (q1..q2) \cap (r1..r2) # {}
               counted == Some(Max(Val(stock[query.mid])
                                     - LineDemand(reserve_lines[1], query.mid), 0))
           IN /\ shared => answer.value = counted
              /\ ~shared => answer.value = stock[query.mid]

\* A query that starts on the return date of the confirmed reservation, after
\* its pickup date, counts it.
C10_Witness ==
    /\ answer.asked
    /\ query.mid = "m1"
    /\ reserves[1].estat = "confirmada"
    /\ LineDemand(reserve_lines[1], "m1") > 0
    /\ reserves[1].data_recollida = <<0, StartOfDay>>
    /\ reserves[1].data_retorn = <<1, EndOfDay>>
    /\ <<query.start_ts, query.end_ts>> = normalize_range(1, 1)
    /\ answer.value # stock["m1"]

(***************************************************************************)
(* C11 .. C20                                                              *)
(***************************************************************************)

\* The lines of confirmed reservations that overlap the query interval [a, b].
ConfirmedOverlapping(a, b) ==
    { k \in DOMAIN reserve_lines :
        LET r == reserves[reserve_lines[k].reserva_id]
        IN /\ r.estat = "confirmada"
           /\ After(b, r.data_recollida)
           /\ After(r.data_retorn, a) }

\* Sum of qty over those lines that name material m.
DirectDemand(m, a, b) ==
    LET rows == { k \in ConfirmedOverlapping(a, b) : reserve_lines[k].material_id = m }
    IN SumOver([k \in rows |-> reserve_lines[k].qty], rows)

\* Sum of qty * qty_required over those lines that name a pack containing m.
PackDerivedDemand(m, a, b) ==
    LET rows == { k \in ConfirmedOverlapping(a, b) :
                    /\ reserve_lines[k].pack_id # NULL
                    /\ \E c \in pack_components :
                         c.pack_id = reserve_lines[k].pack_id /\ c.material_id = m }
        req(k) == LET cs == { c \in pack_components :
                                c.pack_id = reserve_lines[k].pack_id /\ c.material_id = m }
                  IN SumOver([c \in cs |-> c.qty_required], cs)
    IN SumOver([k \in rows |-> reserve_lines[k].qty * req(k)], rows)

\* C11: for a material with a finite stock get_material_available returns
\* max(0, stock - (direct demand + pack-derived demand)) over the confirmed
\* overlapping lines, and never a negative number.
C11_StockLessDemandClamped ==
    (answer.asked /\ stock[query.mid] # None)
    => /\ answer.value =
            Some(Max(0, Val(stock[query.mid])
                          - ( DirectDemand(query.mid, query.start_ts, query.end_ts)
                            + PackDerivedDemand(query.mid, query.start_ts, query.end_ts) )))
       /\ Val(answer.value) >= 0

\* A direct line and a pack line of two confirmed reservations both overlap
\* the query, together they ask for more than the stock, and the answer is 0.
C11_Witness ==
    /\ answer.asked
    /\ query.mid = "m1"
    /\ DirectDemand("m1", query.start_ts, query.end_ts) > 0
    /\ PackDerivedDemand("m1", query.start_ts, query.end_ts) > 0
    /\ DirectDemand("m1", query.start_ts, query.end_ts)
         + PackDerivedDemand("m1", query.start_ts, query.end_ts) > Val(stock["m1"])
    /\ answer.value = Some(0)

\* floor(material_available / qty_required) of the components of the queried
\* pack whose material has a finite stock.
BoundedComponentLimits ==
    { Val(get_material_available(reserves, reserve_lines, c.material_id,
                                 query.start_ts, query.end_ts)) \div c.qty_required :
        c \in { d \in pack_components :
                  d.pack_id = query.pack_id /\ stock[d.material_id] # None } }

\* C12: get_pack_available returns 0 for a pack without components, None when
\* every component is unlimited, and otherwise the smallest of
\* floor(material_available / qty_required) over the bounded components.
C12_PackIsMinOverBounded ==
    answer.asked =>
      IF \A c \in pack_components : c.pack_id # query.pack_id
      THEN answer.value = Some(0)
      ELSE IF BoundedComponentLimits = {}
      THEN answer.value = None
      ELSE /\ answer.value # None
           /\ Val(answer.value) \in BoundedComponentLimits
           /\ \A n \in BoundedComponentLimits : Val(answer.value) <= n

\* One unit of m1 is left over the query interval, the pack needs two, and
\* the pack with an unlimited second component has availability 0.
C12_Witness ==
    /\ answer.asked
    /\ query.pack_id = "p1"
    /\ get_material_available(reserves, reserve_lines, "m1",
                              query.start_ts, query.end_ts) = Some(1)
    /\ answer.value = Some(0)

\* C13: for a material whose stock is null get_material_available returns
\* None for every interval, whatever the reservations, and the re-validation
\* fails no line on it, whatever the quantity.
C13_NullStockIsUnlimited ==
    (answer.asked /\ stock[query.mid] = None)
    => /\ answer.value = None
       /\ \A qty \in 1..(MaxQty + 1) \cup {WidgetMax} :
            ~LineFails(reserves, reserve_lines, "s1", <<"material", query.mid, qty>>,
                       query.start_ts, query.end_ts)

\* Two confirmed reservations overlapping the query hold the unlimited
\* material, one directly and one through the pack, and the answer is None.
C13_Witness ==
    /\ answer.asked
    /\ query.mid = "m2"
    /\ DirectDemand("m2", query.start_ts, query.end_ts) > 0
    /\ PackDerivedDemand("m2", query.start_ts, query.end_ts) > 0
    /\ answer.value = None

\* C14: the run that handles a submission with a required field left empty,
\* with a return date before the pickup date or with no selected line does not
\* go on to create_reservation and writes nothing: no reservation, no line, no
\* e-mail and no calendar event.
C14_RejectedWithoutSideEffect ==
    [][ \A s \in DOMAIN form :
          ( /\ IsSubmitStep(s)
            /\ \/ ~form'[s].filled
               \/ form[s].data_retorn < form[s].data_recollida
               \/ form[s].selected_lines = << >> )
          => /\ form'[s].pc = "form"
             /\ reserves' = reserves
             /\ reserve_lines' = reserve_lines
             /\ email_log' = email_log
             /\ calendar' = calendar ]_vars

\* With both integrations switched on, a form with a required field left
\* empty, valid dates and a selected line was answered with the message of
\* line 464 and nothing was sent or stored for it.
C14_Witness ==
    /\ ENABLE_EMAIL
    /\ ENABLE_CALENDAR
    /\ email_log = {}
    /\ calendar = {}
    /\ \E s \in DOMAIN form :
         /\ form[s].result = "error_required"
         /\ ~form[s].filled
         /\ form[s].data_retorn >= form[s].data_recollida
         /\ form[s].selected_lines # << >>

\* C15: an e-mail is sent and a calendar event is created only in the run of
\* a session that holds the id of a reservation already in the store, and only
\* for that reservation; that run, whether or not the calendar call and the
\* storing of the event id succeed, leaves the reservation in the store in
\* state confirmada with every line.
C15_IntegrationsAfterCommit ==
    [][ /\ (email_log' # email_log \/ calendar' # calendar)
           => \E s \in DOMAIN form :
                /\ form[s].pc = "notify"
                /\ form[s].res_id \in DOMAIN reserves
                /\ email_log' \subseteq email_log \cup {form[s].res_id}
                /\ calendar' \subseteq calendar \cup {form[s].res_id}
        /\ \A s \in DOMAIN form :
             (form[s].pc = "notify" /\ form'[s].pc # "notify")
             => /\ reserve_lines' = reserve_lines
                /\ DOMAIN reserves' = DOMAIN reserves
                /\ form[s].res_id \in DOMAIN reserves'
                /\ reserves'[form[s].res_id].estat = "confirmada"
                /\ \A i \in DOMAIN reserves :
                     [reserves'[i] EXCEPT !.calendar_event_id = None]
                       = [reserves[i] EXCEPT !.calendar_event_id = None] ]_vars

\* With both integrations on: for reservation 1 the calendar call failed, for
\* reservation 2 the event was created and its id could not be stored; both
\* are in the store, confirmed, with their lines, and the e-mails were sent.
C15_Witness ==
    /\ ENABLE_EMAIL
    /\ ENABLE_CALENDAR
    /\ Len(reserves) = 2
    /\ calendar = {2}
    /\ email_log = {1, 2}
    /\ \A i \in DOMAIN reserves :
         /\ reserves[i].estat = "confirmada"
         /\ reserves[i].calendar_event_id = None
         /\ \E k \in DOMAIN reserve_lines : reserve_lines[k].reserva_id = i
    /\ \A s \in DOMAIN form : form[s].result = "success"

\* "Sí, confirmar" of session a in which the deletion of the calendar event
\* fails (the event is still in the calendar) and the reservation gets the
\* requested state.
ConfirmWithFailedDeletion(a) ==
    /\ Confirm(a)
    /\ Val(reserves[admin[a].confirm_id].calendar_event_id) \in calendar'
    /\ reserves'[admin[a].confirm_id].estat = NewStatus(admin[a].confirm_action)

\* C16: whenever the dialog asks to cancel or to finish a confirmed
\* reservation whose calendar event exists and the calendar integration is
\* on, the confirmation can fail to delete the event and still put the
\* reservation into the requested state.
C16_DeletionFailureDoesNotBlock ==
    \A a \in DOMAIN admin :
        ( /\ DialogShown(a)
          /\ ENABLE_CALENDAR
          /\ reserves[admin[a].confirm_id].estat = "confirmada"
          /\ reserves[admin[a].confirm_id].calendar_event_id # None
          /\ Val(reserves[admin[a].confirm_id].calendar_event_id) \in calendar )
        => ENABLED ConfirmWithFailedDeletion(a)

\* A reservation was cancelled from the dialog, the deletion of its event was
\* requested, and the event is still in the calendar.
C16_Witness ==
    /\ ENABLE_CALENDAR
    /\ \E i \in DOMAIN reserves, a \in DOMAIN admin :
         /\ reserves[i].estat = "cancel·lada"
         /\ <<i, "cancel">> \in admin[a].disabled_buttons
         /\ reserves[i].calendar_event_id # None
         /\ Val(reserves[i].calendar_event_id) \in delete_log
         /\ Val(reserves[i].calendar_event_id) \in calendar

\* C17: the batch run at instant now sets to finalitzada exactly the
\* reservations that are confirmada with data_retorn before now and changes
\* nothing else: every other reservation, every other column and every line
\* stay as they were.
C17_BatchFinishesExactlyThePast ==
    [][ /\ DOMAIN reserves' = DOMAIN reserves
        /\ reserve_lines' = reserve_lines
        /\ \A i \in DOMAIN reserves :
             IF reserves[i].estat = "confirmada"
                /\ After(query.now, reserves[i].data_retorn)
             THEN reserves'[i] = [reserves[i] EXCEPT !.estat = "finalitzada"]
             ELSE reserves'[i] = reserves[i] ]_vars

\* After the batch run: the second reservation was finished, the first one,
\* whose data_retorn is the instant of the run, is still confirmada.
C17_Witness ==
    /\ answer.asked
    /\ reserves[2].estat = "finalitzada"
    /\ reserves[1].estat = "confirmada"
    /\ reserves[1].data_retorn = query.now

\* C18: no reservation in the table returns before it is picked up:
\* data_recollida is never after data_retorn.
C18_ReturnNotBeforePickup ==
    \A i \in DOMAIN reserves :
        ~After(reserves[i].data_recollida, reserves[i].data_retorn)

\* A form with the return date before the pickup date was refused, and a
\* reservation picked up and returned on the same day is in the table.
C18_Witness ==
    /\ \E s \in DOMAIN form : form[s].result = "error_dates"
    /\ \E i \in DOMAIN reserves :
         reserves[i].data_recollida[1] = reserves[i].data_retorn[1]

\* C19: every line in the table names either a material or a pack, never both
\* and never neither, and its quantity is positive.
C19_LineNamesOneItem ==
    \A k \in DOMAIN reserve_lines :
        /\ (reserve_lines[k].material_id = NULL) # (reserve_lines[k].pack_id = NULL)
        /\ reserve_lines[k].material_id # NULL => reserve_lines[k].material_id \in MaterialIds
        /\ reserve_lines[k].pack_id # NULL => reserve_lines[k].pack_id \in PackIds
        /\ reserve_lines[k].qty > 0

\* The table holds a material line and a pack line, and a reservation of a
\* flexible sport was stored with fewer lines than the sport has materials.
C19_Witness ==
    /\ \E k \in DOMAIN reserve_lines : reserve_lines[k].material_id # NULL
    /\ \E k \in DOMAIN reserve_lines : reserve_lines[k].pack_id # NULL
    /\ \E i \in DOMAIN reserves :
         /\ sport_mode[reserves[i].sport_id] = "flexible"
         /\ Cardinality({ k \in DOMAIN reserve_lines : reserve_lines[k].reserva_id = i })
              < Len(get_materials_by_sport(reserves[i].sport_id))

\* A step takes reservation i, which has a stored event id, out of state
\* confirmada while the calendar integration is enabled.
LeavesConfirmedWithEvent(i) ==
    /\ ENABLE_CALENDAR
    /\ reserves[i].estat = "confirmada"
    /\ reserves[i].calendar_event_id # None
    /\ reserves'[i].estat # "confirmada"

\* C20: every step that takes a reservation with a stored event id out of
\* state confirmada while the calendar integration is enabled, whichever
\* operation it is, has the deletion of that event requested.
C20_LeavingConfirmedRequestsDeletion ==
    [][ \A i \in DOMAIN reserves :
          LeavesConfirmedWithEvent(i)
          => Val(reserves[i].calendar_event_id) \in delete_log' ]_vars

\* The same for the steps of the confirmation dialog alone
\* (update_reservation_status_with_calendar).
ExplicitChangeRequestsDeletion ==
    [][ \A a \in DOMAIN admin : \A i \in DOMAIN reserves :
          (Confirm(a) /\ LeavesConfirmedWithEvent(i))
          => Val(reserves[i].calendar_event_id) \in delete_log' ]_vars

\* A reservation with a stored event id is finalitzada, the calendar
\* integration is enabled, and the deletion of its event was never requested.
FinishedWithEventNotRequested ==
    /\ ENABLE_CALENDAR
    /\ \E i \in DOMAIN reserves :
         /\ reserves[i].estat = "finalitzada"
         /\ reserves[i].calendar_event_id # None
         /\ Val(reserves[i].calendar_event_id) \notin delete_log
         /\ Val(reserves[i].calendar_event_id) \in calendar

(***************************************************************************)
(* C21 .. C23                                                              *)
(***************************************************************************)

\* The lines of reservation i, in the order of the table.
LinesOf(lin, i) == SelectSeq(lin, LAMBDA l : l.reserva_id = i)

\* Row r with the two mutable columns taken from row q.
WithMutableOf(r, q) ==
    [r EXCEPT !.estat = q.estat, !.calendar_event_id = q.calendar_event_id]

\* C21: in every step, every reservation that is in the table stays in it
\* with all its columns other than estat and calendar_event_id unchanged, and
\* its lines are the same lines in the same order.
C21_OnlyStateAndEventChange ==
    [][ \A i \in DOMAIN reserves :
          /\ i \in DOMAIN reserves'
          /\ WithMutableOf(reserves'[i], reserves[i]) = reserves[i]
          /\ LinesOf(reserve_lines', i) = LinesOf(reserve_lines, i) ]_vars

\* The first reservation got its event id and was then cancelled or finished,
\* and a second reservation was created after it; both have lines.
C21_Witness ==
    /\ Len(reserves) = 2
    /\ reserves[1].estat \in Terminal
    /\ reserves[1].calendar_event_id # None
    /\ LinesOf(reserve_lines, 1) # << >>
    /\ LinesOf(reserve_lines, 2) # << >>

\* What the confirmed reservations picked up on or before day d and returned
\* on or after it ask of material m.
DemandOnDay(m, d) ==
    LET rows == { k \in DOMAIN reserve_lines :
                    LET r == reserves[reserve_lines[k].reserva_id]
                    IN /\ r.estat = "confirmada"
                       /\ r.data_recollida[1] <= d
                       /\ d <= r.data_retorn[1] }
    IN SumOver([k \in rows |-> LineDemand(reserve_lines[k], m)], rows)

\* The least, over the days d1..d2, of the stock of m minus the demand of the day.
MinDayMargin(m, d1, d2) ==
    MinOf({ Val(stock[m]) - DemandOnDay(m, d) : d \in d1..d2 })

\* get_material_available of m over the days d1..d2 on the current store.
AvailableOverDays(m, d1, d2) ==
    Val(get_material_available(reserves, reserve_lines, m,
                               normalize_range(d1, d2)[1], normalize_range(d1, d2)[2]))

\* The materials with a finite stock and the day ranges d1 <= d2.
FiniteDayQueries ==
    { q \in MaterialIds \X Days \X Days : stock[q[1]] # None /\ q[2] <= q[3] }

ConfirmDeletesThenFailsToStore(a) ==
    /\ Confirm(a)
    /\ Val(reserves[admin[a].confirm_id].calendar_event_id) \in delete_log'
    /\ Val(reserves[admin[a].confirm_id].calendar_event_id) \notin calendar'
    /\ reserves' = reserves

\* C23: whenever the dialog asks to cancel or to finish a confirmed
\* reservation whose calendar event exists and the calendar integration is
\* on, the confirmation can delete the event and then fail to store the new
\* state, which leaves the reservation confirmada without its event.
C23_DeletionPrecedesStateChange ==
    \A a \in DOMAIN admin :
        ( /\ DialogShown(a)
          /\ ENABLE_CALENDAR
          /\ reserves[admin[a].confirm_id].estat = "confirmada"
          /\ reserves[admin[a].confirm_id].calendar_event_id # None
          /\ Val(reserves[admin[a].confirm_id].calendar_event_id) \in calendar )
        => ENABLED ConfirmDeletesThenFailsToStore(a)

\* A reservation is confirmada, the deletion of its event was requested from
\* the dialog that is still open on it, and the event is no longer in the
\* calendar.
C23_Witness ==
    /\ ENABLE_CALENDAR
    /\ \E i \in DOMAIN reserves, a \in DOMAIN admin :
         /\ admin[a].confirm_id = i
         /\ reserves[i].estat = "confirmada"
         /\ reserves[i].calendar_event_id # None
         /\ Val(reserves[i].calendar_event_id) \in delete_log
         /\ Val(reserves[i].calendar_event_id) \notin calendar

====
